---- MODULE Spec2Model ----
(***************************************************************************)
(* Model of anitareader's WaveformReader (src/src/WaveformReader.hpp and   *)
(* src/src/WaveformReader.cpp): the constructor and the batch-fill method  *)
(* WaveformReader::next, stepped statement by statement.                   *)
(*                                                                         *)
(* The event source (AnitaDataset) is a sequence of entries                 *)
(* 0..NumEntries-1, each with a run and an event number.  The caller only  *)
(* asks for events that are still in the file (WaveformReader.cpp:13-17):  *)
(* a call may read the last entry, and the advance after it leaves the     *)
(* source exhausted, still in the run of the last entry.                   *)
(***************************************************************************)
EXTENDS Integers, Sequences, FiniteSets, TLC

\* ------------------------------------------------------------------ bounds
NumEntries == 4   \* entries of the event source
FirstRun == 1     \* the run the reader is constructed for
MaxP == 2         \* largest phi axis of the caller's array
NumSamples == 2   \* sample axis of the caller's array
MaxCalls == 4     \* calls of next in one behaviour
EvGap == 5        \* the other first event number tried besides 0

\* --------------------------------------------------------- program constants
\* AnitaRing::kTopRing, kMiddleRing, kBottomRing and AnitaPol::kHorizontal,
\* kVertical: the enumerators used both as channel selectors and as buffer
\* indices.
kTopRing == 0
kMiddleRing == 1
kBottomRing == 2
kHorizontal == 0
kVertical == 1

\* The initializer lists the ring and polarization loops range over.
RingList == <<kTopRing, kMiddleRing, kBottomRing>>
PolList == <<kHorizontal, kVertical>>

NoObject == [kind |-> "none"]

Min(a, b) == IF a < b THEN a ELSE b

VARIABLES
  runStarts,  \* source: the entries at which a new run starts
  evFirst,    \* source: event number of entry 0
  entry,      \* dataset_: the entry the source is positioned on; NumEntries
              \* once the advance after the last entry has been made
  run_,       \* WaveformReader::run_
  pc,         \* position inside next; "idle" between calls
  shape,      \* shape of the buffer of the current call: [E, P, B]
  event,      \* loop variable of the event loop
  phi,        \* loop variable of the phi loop
  ringI,      \* position in RingList
  polI,       \* position in PolList
  evno,       \* local evno
  useful,     \* entry whose calibrated event useful points to, -1 before any
  gr,         \* the raw trace held by gr, or NoObject
  waveform,   \* the AnalysisWaveform held by waveform, or NoObject
  buf,        \* the caller's array
  ret,        \* value returned by the last call
  \* history of the behaviour, read only by the properties
  buf0,       \* the array as it was when the current call began
  startEntry, \* entry the source was on when the current call began
  startRun,   \* run_ when the current call began
  nCalls,     \* calls begun
  allOnes,    \* every call so far had an event axis of exactly 1
  processed,  \* entries whose header was read, over all calls, in order
  hdrReads,   \* header reads of the current call
  advCount,   \* source advances of the current call
  visited,    \* channels extracted for the current event, in order
  nWrites,    \* element writes of the current call
  nAcq,       \* objects acquired over all calls
  nRel,       \* objects released over all calls
  nChan,      \* channel iterations completed over all calls
  early       \* the last return was the one inside the run check

vars == <<runStarts, evFirst, entry, run_, pc, shape, event, phi, ringI, polI, evno,
          useful, gr, waveform, buf, ret, buf0, startEntry, startRun, nCalls, allOnes,
          processed, hdrReads, advCount, visited, nWrites, nAcq, nRel,
          nChan, early>>

src == <<runStarts, evFirst>>

\* ------------------------------------------------------------ event source
Entries == 0 .. (NumEntries - 1)

\* the run of entry e: runs are contiguous blocks, numbered upwards from
\* FirstRun; the exhausted source (e = NumEntries) is still in the last run
runOf(e) == FirstRun + Cardinality({b \in runStarts : b <= e})

\* dataset_.header()->eventNumber at entry e
HeaderEventNumber(e) == evFirst + e

\* dataset_.getCurrRun() at entry e
GetCurrRun(e) == runOf(e)

\* dataset_.next(): the entry after e
NextEntryStays(e) == e
NextEntry(e) == e + 1

\* ---------------------------------------------------------------- channels
\* useful->getGraph(ring, phi, pol) of the event at entry e
GetGraph(e, ring, p, pol) ==
  [kind |-> "graph", entry |-> e, ring |-> ring, phi |-> p, pol |-> pol]

\* AnalysisWaveform::makeWf(gr, false)
MakeWf(g) ==
  [kind |-> "waveform", entry |-> g.entry, ring |-> g.ring, phi |-> g.phi,
   pol |-> g.pol]

\* waveform->even()->GetN(): between 1 and NumSamples + 1 samples, varying by
\* channel
GetN(w) == 1 + ((w.entry + w.phi + w.ring + w.pol) % (NumSamples + 1))

\* Sample values are doubles, written as integers in a fixed binary unit.  A
\* double holds every such integer used here; a float holds 24 significant bits.
FloatPrecision == 16777216

\* waveform->even()->GetY()[i]: a positive double naming the channel and
\* sample; on odd samples of odd entries one that needs more than 24 bits
GetY(w, i) ==
  1 + i + 10 * (w.pol + 2 * (w.ring + 3 * (w.phi + (MaxP + 2) * w.entry)))
    + (IF (w.entry + i) % 2 = 1 THEN FloatPrecision ELSE 0)

\* the spacing of the floats around a value of magnitude a
RECURSIVE FloatUnit(_, _)
FloatUnit(a, u) == IF a < FloatPrecision * u THEN u ELSE FloatUnit(a, 2 * u)

\* r(...) = signal[sample]: the double stored into an element of
\* py::array_t<float>, rounded to the nearest float, ties to even
ToFloat(x) ==
  LET a == IF x < 0 THEN 0 - x ELSE x
      u == FloatUnit(a, 1)
      q == a \div u
      r == a % u
      m == IF 2 * r > u \/ (2 * r = u /\ q % 2 = 1) THEN q + 1 ELSE q
  IN IF x < 0 THEN 0 - (m * u) ELSE m * u

\* const int N{std::min(GetN(), int(r.shape(4)))}
NumCopiedWholeAxis(s, b) == b
NumCopied(s, b) == Min(s, b)

\* the array element r(event, phi, ring, pol, sample) addresses
BufIndexByLoopReversed(ev, p, ring, pol, i) == <<ev, p, 2 - ring, pol, i>>
BufIndex(ev, p, ring, pol, i) == <<ev, p, ring, pol, i>>

\* the elements of an array of shape (E, P, 3, 2, B)
BufDomain(E, P, B) ==
  (0 .. (E - 1)) \X (0 .. (P - 1)) \X (0 .. 2) \X (0 .. 1) \X (0 .. (B - 1))

\* what the caller's array holds before a call: negative, varying by element
Prefill(idx) == 0 - (1 + idx[1] + idx[3] + idx[5])

\* int evno = 0
InitialEvnoFromHeader(e) == HeaderEventNumber(e)
InitialEvno(e) == 0

\* dataset_.getCurrRun() != this->run_
RunChangedNever(cur, stored) == FALSE
RunChanged(cur, stored) == cur # stored

\* this->run_ = dataset_.getCurrRun()
UpdatedRunKept(cur, stored) == stored
UpdatedRun(cur, stored) == cur

\* delete waveform; delete gr
DeletedLeaks(obj) == obj
Deleted(obj) == NoObject

\* return evno
ReturnedValueOfSource(ev, e) == HeaderEventNumber(e)
ReturnedValue(ev, e) == ev

\* ------------------------------------------------------------- construction
\* WaveformReader(run): run_(run), dataset_(run, ...) opened on its first entry
Init ==
  /\ runStarts \in SUBSET (1 .. (NumEntries - 1))
  /\ evFirst \in {0, EvGap}
  /\ entry = 0
  /\ run_ = FirstRun
  /\ pc = "idle"
  /\ \E P \in 0 .. MaxP : shape = [E |-> 0, P |-> P, B |-> NumSamples]
  /\ event = 0 /\ phi = 0 /\ ringI = 1 /\ polI = 1
  /\ evno = 0
  /\ useful = -1
  /\ gr = NoObject /\ waveform = NoObject
  /\ buf = << >>
  /\ ret = 0
  /\ buf0 = << >>
  /\ startEntry = 0
  /\ startRun = FirstRun
  /\ nCalls = 0
  /\ allOnes = TRUE
  /\ processed = << >>
  /\ hdrReads = 0 /\ advCount = 0 /\ nWrites = 0
  /\ visited = << >>
  /\ nAcq = 0 /\ nRel = 0 /\ nChan = 0
  /\ early = FALSE

\* --------------------------------------------------------------------- next
\* Entry of next(waveforms): r = waveforms.mutable_unchecked<5>(); int evno = 0;
\* event = 0.  The array has shape (E, P, 3, 2, B), with P and B those of the
\* caller's layout, and the source still holds the E events asked for.
Call ==
  /\ pc = "idle"
  /\ nCalls < MaxCalls
  /\ \E E \in 0 .. NumEntries :
       /\ entry + E <= NumEntries
       /\ shape' = [shape EXCEPT !.E = E]
       /\ buf' = [idx \in BufDomain(E, shape.P, shape.B) |-> Prefill(idx)]
       /\ buf0' = [idx \in BufDomain(E, shape.P, shape.B) |-> Prefill(idx)]
       /\ allOnes' = (allOnes /\ E = 1)
  /\ evno' = InitialEvno(entry)
  /\ event' = 0
  /\ pc' = "for_event"
  /\ startEntry' = entry
  /\ startRun' = run_
  /\ nCalls' = nCalls + 1
  /\ hdrReads' = 0 /\ advCount' = 0 /\ nWrites' = 0
  /\ visited' = << >>
  /\ early' = FALSE
  /\ UNCHANGED <<src, entry, run_, phi, ringI, polI, useful, gr, waveform, ret,
                 processed, nAcq, nRel, nChan>>

\* event < r.shape(0): evno = dataset_.header()->eventNumber;
\* useful = dataset_.useful(); phi = 0, and with phi < r.shape(1) the channel
\* loops start at top, horizontal; with an empty phi axis they are skipped
ReadHeader ==
  /\ pc = "for_event"
  /\ event < shape.E
  /\ evno' = HeaderEventNumber(entry)
  /\ useful' = entry
  /\ phi' = 0 /\ ringI' = 1 /\ polI' = 1
  /\ processed' = Append(processed, entry)
  /\ hdrReads' = hdrReads + 1
  /\ visited' = << >>
  /\ pc' = IF 0 < shape.P THEN "getGraph" ELSE "advance"
  /\ UNCHANGED <<src, entry, run_, shape, event, gr, waveform, buf, ret, buf0,
                 startEntry, startRun, nCalls, allOnes, advCount, nWrites,
                 nAcq, nRel, nChan, early>>

\* auto gr{useful->getGraph(ring, phi, pol)}
GetGraphStep ==
  /\ pc = "getGraph"
  /\ gr' = GetGraph(useful, RingList[ringI], phi, PolList[polI])
  /\ nAcq' = nAcq + 1
  /\ visited' = Append(visited, <<phi, RingList[ringI], PolList[polI]>>)
  /\ pc' = "makeWf"
  /\ UNCHANGED <<src, entry, run_, shape, event, phi, ringI, polI, evno, useful,
                 waveform, buf, ret, buf0, startEntry, startRun, nCalls, allOnes,
                 processed, hdrReads, advCount, nWrites, nRel, nChan,
                 early>>

\* auto *waveform{AnalysisWaveform::makeWf(gr, false)}
MakeWfStep ==
  /\ pc = "makeWf"
  /\ waveform' = MakeWf(gr)
  /\ nAcq' = nAcq + 1
  /\ pc' = "copy"
  /\ UNCHANGED <<src, entry, run_, shape, event, phi, ringI, polI, evno, useful,
                 gr, buf, ret, buf0, startEntry, startRun, nCalls, allOnes,
                 processed, hdrReads, advCount, visited, nWrites, nRel, nChan,
                 early>>

\* N = min(GetN(), shape(4)); signal = GetY();
\* for sample in 0..N-1: r(event, phi, ring, pol, sample) = signal[sample]
CopySamples ==
  /\ pc = "copy"
  /\ LET N == NumCopied(GetN(waveform), shape.B)
         ring == RingList[ringI]
         pol == PolList[polI]
         written == {BufIndex(event, phi, ring, pol, i) : i \in 0 .. (N - 1)}
     IN /\ buf' = [idx \in DOMAIN buf |->
                     IF idx \in written THEN ToFloat(GetY(waveform, idx[5]))
                     ELSE buf[idx]]
        /\ nWrites' = nWrites + N
  /\ pc' = "deleteWf"
  /\ UNCHANGED <<src, entry, run_, shape, event, phi, ringI, polI, evno, useful,
                 gr, waveform, ret, buf0, startEntry, startRun, nCalls, allOnes,
                 processed, hdrReads, advCount, visited, nAcq, nRel, nChan,
                 early>>

\* delete waveform
DeleteWaveform ==
  /\ pc = "deleteWf"
  /\ waveform' = Deleted(waveform)
  /\ nRel' = nRel + (IF waveform' = NoObject THEN 1 ELSE 0)
  /\ pc' = "deleteGr"
  /\ UNCHANGED <<src, entry, run_, shape, event, phi, ringI, polI, evno, useful,
                 gr, buf, ret, buf0, startEntry, startRun, nCalls, allOnes,
                 processed, hdrReads, advCount, visited, nWrites, nAcq, nChan,
                 early>>

\* delete gr; then the ends of the pol, ring and phi loops: the next channel,
\* or the end of the phi loop
DeleteGraph ==
  /\ pc = "deleteGr"
  /\ gr' = Deleted(gr)
  /\ nRel' = nRel + (IF gr' = NoObject THEN 1 ELSE 0)
  /\ nChan' = nChan + 1
  /\ IF polI < Len(PolList)
       THEN /\ polI' = polI + 1
            /\ UNCHANGED <<ringI, phi>>
            /\ pc' = "getGraph"
       ELSE IF ringI < Len(RingList)
         THEN /\ polI' = 1 /\ ringI' = ringI + 1
              /\ UNCHANGED phi
              /\ pc' = "getGraph"
         ELSE IF phi + 1 < shape.P
           THEN /\ polI' = 1 /\ ringI' = 1 /\ phi' = phi + 1
                /\ pc' = "getGraph"
           ELSE /\ polI' = 1 /\ ringI' = 1 /\ phi' = 0
                /\ pc' = "advance"
  /\ UNCHANGED <<src, entry, run_, shape, event, evno, useful, waveform, buf, ret,
                 buf0, startEntry, startRun, nCalls, allOnes, processed,
                 hdrReads, advCount, visited, nWrites, nAcq, early>>

\* dataset_.next(); if (dataset_.getCurrRun() != this->run_)
\* { this->run_ = dataset_.getCurrRun(); return evno; }  else ++event
Advance ==
  /\ pc = "advance"
  /\ entry' = NextEntry(entry)
  /\ advCount' = advCount + 1
  /\ IF RunChanged(GetCurrRun(entry'), run_)
       THEN /\ run_' = UpdatedRun(GetCurrRun(entry'), run_)
            /\ ret' = ReturnedValue(evno, entry')
            /\ early' = TRUE
            /\ pc' = "idle"
            /\ UNCHANGED event
       ELSE /\ event' = event + 1
            /\ pc' = "for_event"
            /\ UNCHANGED <<run_, ret, early>>
  /\ UNCHANGED <<src, shape, phi, ringI, polI, evno, useful, gr, waveform, buf,
                 buf0, startEntry, startRun, nCalls, allOnes, processed, hdrReads,
                 visited, nWrites, nAcq, nRel, nChan>>

\* event = r.shape(0): the loop over events ends; return evno
ReturnAtEnd ==
  /\ pc = "for_event"
  /\ ~(event < shape.E)
  /\ ret' = ReturnedValue(evno, entry)
  /\ pc' = "idle"
  /\ UNCHANGED <<src, entry, run_, shape, event, phi, ringI, polI, evno, useful,
                 gr, waveform, buf, buf0, startEntry, startRun, nCalls, allOnes,
                 processed, hdrReads, advCount, visited, nWrites, nAcq, nRel,
                 nChan, early>>

Next ==
  \/ Call
  \/ ReadHeader
  \/ GetGraphStep
  \/ MakeWfStep
  \/ CopySamples
  \/ DeleteWaveform
  \/ DeleteGraph
  \/ Advance
  \/ ReturnAtEnd

Spec == Init /\ [][Next]_vars

\* ---------------------------------------------------------------- properties
\* What the properties read off a finished call, computed from the source and
\* the call's inputs alone.

\* a call has returned and no other has begun
Returned == pc = "idle" /\ nCalls >= 1

\* the event number the source holds at entry e
EventNumberAt(e) == evFirst + e

\* the slots after whose event the source stands in a run other than the one
\* stored when the call began
Crossings ==
  {k \in 0 .. (shape.E - 1) : runOf(startEntry + k + 1) # startRun}

\* the first such slot
CrossSlot == CHOOSE k \in Crossings : \A j \in Crossings : k <= j

\* the slots a call fills
SlotsWritten == IF Crossings = {} THEN shape.E ELSE CrossSlot + 1

\* the entry whose event goes to a slot of the current call
EntryOfSlot(slot) == startEntry + slot

LastProcessed == processed[Len(processed)]

\* sample i of the resampled waveform of channel (ring, p, pol) of entry e
WaveformSample(e, ring, p, pol, i) == GetY(MakeWf(GetGraph(e, ring, p, pol)), i)

\* that sample as an element of the float array holds it
StoredSample(e, ring, p, pol, i) == ToFloat(WaveformSample(e, ring, p, pol, i))

\* the sample count of that waveform
WaveformLength(e, ring, p, pol) == GetN(MakeWf(GetGraph(e, ring, p, pol)))

ExpectedRing(r) ==
  CASE r = 0 -> kTopRing [] r = 1 -> kMiddleRing [] r = 2 -> kBottomRing

ExpectedPol(q) == CASE q = 0 -> kHorizontal [] q = 1 -> kVertical

\* the channels of one event in nested order: phi, then ring, then polarization
NestedOrder(P) ==
  [k \in 1 .. (6 * P) |->
     <<(k - 1) \div 6, ExpectedRing(((k - 1) % 6) \div 2), ExpectedPol((k - 1) % 2)>>]

IsPrefix(s, t) == Len(s) <= Len(t) /\ \A i \in 1 .. Len(s) : s[i] = t[i]

\* the number of events of the stored run left at the start of the call equals
\* the event axis: the E events from the cursor are of the stored run, and
\* after them the source ends or another run begins
ExactFit ==
  /\ shape.E >= 1
  /\ \A j \in 0 .. (shape.E - 1) : runOf(startEntry + j) = startRun
  /\ (startEntry + shape.E = NumEntries \/ runOf(startEntry + shape.E) # startRun)

\* another run follows the events of an exact-fit call
RunFollows == startEntry + shape.E < NumEntries

\* C1: with every call given an array of exactly one event slot, the i-th call
\* returns the event number of the i-th event of the source, and the events
\* read so far are the first i, each once and in order.
C1_BatchOfOneInOrder ==
  (Returned /\ allOnes) =>
     /\ ret = EventNumberAt(nCalls - 1)
     /\ processed = [i \in 1 .. nCalls |-> i - 1]
     /\ \A i \in 1 .. (nCalls - 1) : EventNumberAt(i - 1) < EventNumberAt(i)

C1_Witness ==
  /\ Returned /\ allOnes /\ nCalls = NumEntries
  /\ ret = EventNumberAt(NumEntries - 1)
  /\ entry = NumEntries
  /\ runStarts # {}

\* C2: when the advance after slot k, k < E-1, first leaves the source in a run
\* other than the stored one, the call returns at once with the event number of
\* slot k, the stored run becomes the source's new run, and slots k+1 .. E-1
\* keep what they held; so with runs {e0,e1}, {e2,e3} and three slots from e0 the
\* call returns e1, leaves slot 2 alone and stores the second run.
C2_RunBoundaryEarlyReturn ==
  (Returned /\ Crossings # {} /\ CrossSlot < shape.E - 1) =>
     /\ early
     /\ ret = EventNumberAt(EntryOfSlot(CrossSlot))
     /\ run_ = runOf(EntryOfSlot(CrossSlot) + 1)
     /\ run_ # startRun
     /\ hdrReads = CrossSlot + 1
     /\ \A idx \in DOMAIN buf : idx[1] > CrossSlot => buf[idx] = buf0[idx]

C2_Witness ==
  /\ Returned
  /\ runStarts = {2} /\ startEntry = 0 /\ shape.E = 3
  /\ ret = EventNumberAt(1)
  /\ run_ = runOf(2)
  /\ \A idx \in DOMAIN buf : idx[1] = 2 => buf[idx] = Prefill(idx)
  /\ \E idx \in DOMAIN buf : idx[1] = 1 /\ buf[idx] # Prefill(idx)

\* C3 as stated: in the exact-fit case the call returns the number of the last
\* event of the run, does not return from inside the run check, and leaves the
\* stored run as it was.
C3_ExactFitAsStated ==
  (Returned /\ ExactFit) =>
     /\ ret = EventNumberAt(EntryOfSlot(shape.E - 1))
     /\ ~early
     /\ run_ = startRun

\* C3, amended: in the exact-fit case the call fills all E slots and returns
\* the number of the last event of the run.  When the run is the last of the
\* source the call does not return from inside the run check and the stored run
\* stays; when another run follows, the advance after the last slot enters it,
\* the call returns from inside the run check and the stored run becomes the
\* following run.
C3_ExactFitCrossesIntoFollowingRun ==
  (Returned /\ ExactFit) =>
     /\ ret = EventNumberAt(EntryOfSlot(shape.E - 1))
     /\ hdrReads = shape.E
     /\ early = RunFollows
     /\ run_ = runOf(startEntry + shape.E)
     /\ (run_ # startRun) = RunFollows

C3_Witness ==
  /\ Returned /\ ExactFit /\ RunFollows /\ shape.E = 2
  /\ early /\ run_ = startRun + 1

\* C4: a call with at least one event slot returns the event number of the last
\* event it processed, the one copied into the highest slot it wrote, whether it
\* filled every slot or returned at a run boundary.
C4_ReturnsLastProcessed ==
  (Returned /\ shape.E >= 1) =>
     /\ hdrReads >= 1
     /\ hdrReads = SlotsWritten
     /\ LastProcessed = EntryOfSlot(hdrReads - 1)
     /\ ret = EventNumberAt(LastProcessed)
     /\ shape.P >= 1 =>
          buf[<<hdrReads - 1, 0, 0, 0, 0>>]
            = StoredSample(LastProcessed, kTopRing, 0, kHorizontal, 0)
     /\ \A idx \in DOMAIN buf : idx[1] > hdrReads - 1 => buf[idx] = buf0[idx]

C4_Witness ==
  /\ Returned /\ early
  /\ startEntry = 1 /\ shape.E = 2 /\ hdrReads = 1
  /\ ret = EventNumberAt(1)
  /\ evFirst = EvGap

\* C5 as stated: for every processed channel, with S the sample count of its
\* waveform and B the sample axis, the elements 0 .. min(S,B)-1 equal the
\* waveform's samples and the elements min(S,B) .. B-1 hold what they held
\* before the call.
C5_TruncationAndFrameAsStated ==
  Returned =>
    \A idx \in DOMAIN buf :
      idx[1] < hdrReads =>
        LET e == EntryOfSlot(idx[1])
            S == WaveformLength(e, idx[3], idx[2], idx[4])
        IN IF idx[5] < Min(S, shape.B)
             THEN buf[idx] = WaveformSample(e, idx[3], idx[2], idx[4], idx[5])
             ELSE buf[idx] = buf0[idx]

\* C5, amended: for every processed channel the elements 0 .. min(S,B)-1 hold
\* the waveform's samples converted from double to the array's float element
\* type (equal to the sample only when a float holds it exactly), and the
\* elements min(S,B) .. B-1 hold what they held before the call.
C5_TruncationAndFrame ==
  Returned =>
    \A idx \in DOMAIN buf :
      idx[1] < hdrReads =>
        LET e == EntryOfSlot(idx[1])
            S == WaveformLength(e, idx[3], idx[2], idx[4])
        IN IF idx[5] < Min(S, shape.B)
             THEN buf[idx] = StoredSample(e, idx[3], idx[2], idx[4], idx[5])
             ELSE buf[idx] = buf0[idx]

C5_Witness ==
  /\ Returned /\ hdrReads >= 1
  /\ \E idx \in DOMAIN buf :
       /\ idx[1] < hdrReads
       /\ idx[5] >= WaveformLength(EntryOfSlot(idx[1]), idx[3], idx[2], idx[4])
       /\ buf[idx] = Prefill(idx)
  /\ \E idx \in DOMAIN buf :
       /\ idx[1] < hdrReads
       /\ WaveformLength(EntryOfSlot(idx[1]), idx[3], idx[2], idx[4]) > shape.B
       /\ idx[5] = shape.B - 1
       /\ buf[idx] = StoredSample(EntryOfSlot(idx[1]), idx[3], idx[2], idx[4], idx[5])
  /\ \E idx \in DOMAIN buf :
       /\ idx[1] < hdrReads
       /\ idx[5] < WaveformLength(EntryOfSlot(idx[1]), idx[3], idx[2], idx[4])
       /\ buf[idx] # WaveformSample(EntryOfSlot(idx[1]), idx[3], idx[2], idx[4], idx[5])
  /\ \E idx \in DOMAIN buf :
       /\ idx[1] < hdrReads
       /\ idx[5] < WaveformLength(EntryOfSlot(idx[1]), idx[3], idx[2], idx[4])
       /\ buf[idx] = WaveformSample(EntryOfSlot(idx[1]), idx[3], idx[2], idx[4], idx[5])

\* C6: for every written slot and phi index p, ring-axis index 0, 1, 2 holds the
\* waveform of ring top, middle, bottom and polarization-axis index 0, 1 that of
\* horizontal, vertical, each of phi-sector p of the slot's event; and the
\* channels of an event are extracted in nested order phi, ring, polarization.
C6_ChannelAxisOrder ==
  /\ Returned =>
       \A slot \in 0 .. (hdrReads - 1), p \in 0 .. (shape.P - 1),
          r \in 0 .. 2, q \in 0 .. 1 :
            buf[<<slot, p, r, q, 0>>]
              = StoredSample(EntryOfSlot(slot), ExpectedRing(r), p, ExpectedPol(q), 0)
  /\ IsPrefix(visited, NestedOrder(shape.P))
  /\ pc = "advance" => visited = NestedOrder(shape.P)

C6_Witness ==
  /\ Returned /\ shape.P = 2 /\ hdrReads = 2
  /\ buf[<<1, 1, 2, 1, 0>>]
       = StoredSample(EntryOfSlot(1), kBottomRing, 1, kVertical, 0)
  /\ buf[<<1, 1, 0, 1, 0>>]
       = StoredSample(EntryOfSlot(1), kTopRing, 1, kVertical, 0)

\* C7 as stated: between calls the stored run is the run of the event processed
\* last, and a call changes the stored run exactly when one of its advances
\* crosses a run boundary.
C7_StoredRunAsStated ==
  /\ (pc = "idle" /\ processed # << >>) => run_ = runOf(LastProcessed)
  /\ Returned => ((run_ # startRun) <=> (Crossings # {}))

\* C7, amended: between calls the stored run is the run of the event the source
\* stands on (the one the last advance loaded, which the next call reads first),
\* not that of the event processed last; inside a call it is the run stored at
\* the start; and a call changes it exactly when one of its advances crosses a
\* run boundary.
C7_StoredRunIsSourceRun ==
  /\ pc = "idle" => run_ = runOf(entry)
  /\ pc # "idle" => run_ = startRun
  /\ Returned => ((run_ # startRun) <=> (Crossings # {}))
  /\ Returned => (early <=> (Crossings # {}))

C7_Witness ==
  /\ Returned /\ nCalls = 2
  /\ run_ # startRun
  /\ run_ = runOf(entry)
  /\ run_ # runOf(LastProcessed)

\* C8: a call that writes k slots advances the source exactly k times, each
\* advance coming after every channel of the slot's event was extracted, copied
\* and released; over all calls the events read are consecutive entries of the
\* source, none skipped or repeated; and after an early return the source
\* stands on the first event of the new run.
C8_AdvancePerSlot ==
  /\ processed = [i \in 1 .. Len(processed) |-> i - 1]
  /\ pc = "advance" =>
       /\ advCount = event
       /\ hdrReads = event + 1
       /\ Len(visited) = 6 * shape.P
       /\ nChan = 6 * shape.P * Len(processed)
  /\ pc \in {"getGraph", "makeWf", "copy", "deleteWf", "deleteGr"} =>
       /\ advCount = event
       /\ entry = EntryOfSlot(event)
       /\ useful = entry
  /\ Returned =>
       /\ advCount = SlotsWritten
       /\ hdrReads = SlotsWritten
       /\ entry = startEntry + SlotsWritten
       /\ Len(processed) = entry
  /\ (Returned /\ early) => (entry \in runStarts /\ run_ = runOf(entry))

C8_Witness ==
  /\ Returned /\ nCalls = 2 /\ ~early
  /\ startEntry = 2 /\ startEntry \in runStarts
  /\ shape.E = 1 /\ advCount = 1
  /\ processed = <<0, 1, 2>>

\* C9: at most one raw trace and one waveform are live at any moment, the pair
\* of a channel is released before the next pair is acquired and before the
\* source advances, none is live when the call returns, and over all calls the
\* acquisitions and the releases both equal the channels processed.
C9_PerChannelRelease ==
  /\ nAcq - nRel =
       (IF gr = NoObject THEN 0 ELSE 1) + (IF waveform = NoObject THEN 0 ELSE 1)
  /\ pc \in {"idle", "for_event", "getGraph", "advance"} =>
       (gr = NoObject /\ waveform = NoObject /\ nAcq = nRel)
  /\ pc = "makeWf" => (gr # NoObject /\ waveform = NoObject)
  /\ pc \in {"copy", "deleteWf"} => (gr # NoObject /\ waveform # NoObject)
  /\ pc = "deleteGr" => (gr # NoObject /\ waveform = NoObject)
  /\ pc \in {"idle", "for_event", "advance"} =>
       /\ nChan = 6 * shape.P * Len(processed)
       /\ nAcq = 2 * nChan
       /\ nRel = 2 * nChan

C9_Witness ==
  /\ Returned /\ nCalls = 3
  /\ shape.P = 2 /\ Len(processed) = 3
  /\ nAcq = 72 /\ nRel = 72

\* C10: a call with an array of no event slots returns 0 without reading the
\* header, advancing the source, changing the stored run or writing an element;
\* a call whose last processed event is numbered 0 returns 0 as well.
C10_EmptyBatch ==
  /\ (Returned /\ shape.E = 0) =>
       /\ ret = 0
       /\ hdrReads = 0 /\ advCount = 0 /\ nWrites = 0
       /\ entry = startEntry
       /\ run_ = startRun
       /\ buf = buf0
       /\ ~early
  /\ (Returned /\ shape.E >= 1 /\ EventNumberAt(LastProcessed) = 0) => ret = 0

C10_Witness ==
  /\ Returned /\ shape.E = 0 /\ nCalls = 2
  /\ ret = 0
  /\ processed = <<0>> /\ EventNumberAt(0) = 0
  /\ EventNumberAt(entry) # 0

====
